---- MODULE Spec2Model ----
(***************************************************************************)
(* Verification model of the autoDeployment pipeline:                      *)
(*   main.py            job table, deploy, get_logs, stream_logs,          *)
(*                      run_pipeline                                       *)
(*   repo_analyzer.py   dependency collection and service inference        *)
(*   decision_engine.py DecisionEngine                                     *)
(* Python strings are TLA+ strings; Python None is the value None; a dict  *)
(* is a function whose DOMAIN is its key set.                              *)
(***************************************************************************)
EXTENDS Integers, Sequences, FiniteSets, TLC

VARIABLES
    \* ---- main.py: the job table and the pipeline workers ----
    jobs,        \* jobs[j] = [logs, done, result], j in 1..Len(jobs)
    pc,          \* pc[j]: position of job j's run_pipeline worker
    plan,        \* plan[j]: local variable plan of run_pipeline (None before line 85)
    outputs,     \* outputs[j]: local variable outputs (None before line 89)
    stages,      \* history: stages[j] = stages started by job j, in order
    returned,    \* history: returned[j] = stages that returned without raising
    touched,     \* touched[j]: the rewriter has written into job j's working tree
    \* ---- main.py: one get_logs request ----
    rd,          \* the status reader: [pc, job, done, result, logs]
    \* ---- main.py: one stream_logs generator ----
    st,          \* the stream: [pc, job, last_line, new_lines, yielded]
    \* ---- decision_engine.py: one DecisionEngine object and its caller ----
    eng_tree,    \* the working tree the facts describe
    eng_nlp,     \* nlp_info passed to __init__
    eng_facts,   \* self.facts
    eng_notes,   \* self.notes (one list object, shared with every plan returned)
    eng_plans,   \* the plans make_plan has returned so far (notes held by reference)
    eng_first,   \* history: each plan as it was when make_plan returned it
    \* ---- terraform_provisioning.py: one TerraformProvisioner.apply() ----
    tf,          \* [pc, plan, files, calls, result]
    \* ---- code_modifier.py: one working tree, its scan and its rewrite ----
    cm,
    \* ---- repo_analyzer.py: one RepoAnalyzer._fetch() ----
    fx

jobVars == <<jobs, pc, plan, outputs, stages, returned, touched>>
engVars == <<eng_tree, eng_nlp, eng_facts, eng_notes, eng_plans, eng_first>>
toolVars == <<tf, cm, fx>>
vars == <<jobs, pc, plan, outputs, stages, returned, touched, rd, st,
          eng_tree, eng_nlp, eng_facts, eng_notes, eng_plans, eng_first, tf, cm, fx>>

\* None where the other values are strings, and where they are dicts
None == "<None>"
NoneObj == [isNone |-> TRUE]

\* ------------------------------------------------------------------------
\* Python string and dict primitives
\* ------------------------------------------------------------------------

\* key in s  (substring containment)
Contains(key, s) ==
    \E i \in 1..(Len(s) - Len(key) + 1) : SubSeq(s, i, i + Len(key) - 1) = key

UpperLetters == "ABCDEFGHIJKLMNOPQRSTUVWXYZ"
LowerLetters == "abcdefghijklmnopqrstuvwxyz"

CharsOf(s) == {SubSeq(s, i, i) : i \in 1..Len(s)}

LowerTable ==
    [c \in CharsOf(UpperLetters) |->
        LET i == CHOOSE k \in 1..26 : SubSeq(UpperLetters, k, k) = c
        IN  SubSeq(LowerLetters, i, i)]

UpperTable ==
    [c \in CharsOf(LowerLetters) |->
        LET i == CHOOSE k \in 1..26 : SubSeq(LowerLetters, k, k) = c
        IN  SubSeq(UpperLetters, i, i)]

LowerChar(c) == IF c \in DOMAIN LowerTable THEN LowerTable[c] ELSE c

RECURSIVE Lower(_)
\* s.lower()
Lower(s) ==
    IF Len(s) = 0 THEN ""
    ELSE LowerChar(SubSeq(s, 1, 1)) \o Lower(SubSeq(s, 2, Len(s)))

\* d.get(k, default)
DictGet(d, k, default) == IF k \in DOMAIN d THEN d[k] ELSE default

\* x or default  (None and the empty string are falsy)
OrElse(x, default) == IF x = None \/ x = "" THEN default ELSE x

Range(s) == {s[i] : i \in 1..Len(s)}

IsPrefix(s, t) == Len(s) <= Len(t) /\ SubSeq(t, 1, Len(s)) = s

\* ------------------------------------------------------------------------
\* repo_analyzer.py: the facts the decision engine consumes
\* A working tree is [entries, req_files, pkg_files]:
\*   entries   the directory entries other than manifests, [name, dir]
\*   req_files the requirements.txt files found, each a sequence of lines
\*   pkg_files the package.json files found, each a dict whose dependency
\*             tables are given by their key sets
\* ------------------------------------------------------------------------

DB_KEYWORDS == << <<"psycopg2", "PostgreSQL">>, <<"pg8000", "PostgreSQL">>,
                  <<"mysql", "MySQL">>, <<"pymysql", "MySQL">>,
                  <<"mongo", "MongoDB">>, <<"mongoose", "MongoDB">> >>
CACHE_KEYWORDS == << <<"redis", "Redis">> >>
QUEUE_KEYWORDS == << <<"celery", "RabbitMQ">>, <<"boto3", "SQS">> >>
GPU_KEYWORDS == {"tensorflow", "torch", "pytorch", "jax"}

\* l.split("==")[0]
BeforeEq(l) ==
    IF Contains("==", l)
    THEN LET i == CHOOSE k \in 1..(Len(l) - 1) :
                      /\ SubSeq(l, k, k + 1) = "=="
                      /\ \A m \in 1..(k - 1) : SubSeq(l, m, m + 1) # "=="
         IN  SubSeq(l, 1, i - 1)
    ELSE l

RECURSIVE LStrip(_)
LStrip(s) == IF Len(s) > 0 /\ SubSeq(s, 1, 1) = " " THEN LStrip(SubSeq(s, 2, Len(s))) ELSE s

RECURSIVE RStrip(_)
RStrip(s) ==
    IF Len(s) > 0 /\ SubSeq(s, Len(s), Len(s)) = " " THEN RStrip(SubSeq(s, 1, Len(s) - 1)) ELSE s

\* s.strip()
Strip(s) == RStrip(LStrip(s))

RECURSIVE Flatten(_)
Flatten(ss) == IF Len(ss) = 0 THEN <<>> ELSE Head(ss) \o Flatten(Tail(ss))

RECURSIVE MapSeq(_, _)
MapSeq(Op(_), s) == IF Len(s) = 0 THEN <<>> ELSE <<Op(Head(s))>> \o MapSeq(Op, Tail(s))

IsDepLine(l) == l # "" /\ SubSeq(l, 1, 1) # "#"

DepName(l) == Strip(BeforeEq(l))

\* RepoAnalyzer._collect_dependencies: a dict with the keys of the manifests found
_collect_dependencies(tree) ==
    LET py == IF Len(tree.req_files) > 0
              THEN [python |-> MapSeq(DepName, SelectSeq(Flatten(tree.req_files), IsDepLine))]
              ELSE <<>>
        nd == IF Len(tree.pkg_files) > 0
              THEN LET pkg == tree.pkg_files[1]
                   IN  [node |-> [dependencies    |-> DictGet(pkg, "dependencies", {}),
                                  devDependencies |-> DictGet(pkg, "devDependencies", {})]]
              ELSE <<>>
        dk == IF \E e \in tree.entries : e.name = "Dockerfile"
              THEN [docker |-> TRUE]
              ELSE <<>>
    IN  py @@ nd @@ dk

\* flat: every Python dependency and every node dependency key, lower-cased
FlatDeps(deps) ==
    (IF "python" \in DOMAIN deps THEN {Lower(d) : d \in Range(deps.python)} ELSE {})
    \cup (IF "node" \in DOMAIN deps THEN {Lower(k) : k \in deps.node.dependencies} ELSE {})

RECURSIVE match(_, _)
\* the local function match of _infer_services: first table entry, in declaration
\* order, whose key is a substring of some dependency
match(mapping, flat) ==
    IF Len(mapping) = 0 THEN None
    ELSE IF \E dep \in flat : Contains(Head(mapping)[1], dep) THEN Head(mapping)[2]
    ELSE match(Tail(mapping), flat)

\* Faulty variant: only the services that were found get a key
_infer_services_sparse(deps) ==
    LET flat == FlatDeps(deps)
        Entry(k, v) == IF v = None THEN <<>> ELSE k :> v
    IN  Entry("db", match(DB_KEYWORDS, flat))
        @@ Entry("cache", match(CACHE_KEYWORDS, flat))
        @@ Entry("queue", match(QUEUE_KEYWORDS, flat))
        @@ [needs_gpu |-> \E dep \in flat : \E g \in GPU_KEYWORDS : Contains(g, dep)]

\* RepoAnalyzer._infer_services
_infer_services(deps) ==
    LET flat == FlatDeps(deps)
    IN  [db        |-> match(DB_KEYWORDS, flat),
         cache     |-> match(CACHE_KEYWORDS, flat),
         queue     |-> match(QUEUE_KEYWORDS, flat),
         needs_gpu |-> \E dep \in flat : \E g \in GPU_KEYWORDS : Contains(g, dep)]

UpperChar(c) == IF c \in DOMAIN UpperTable THEN UpperTable[c] ELSE c

\* s.capitalize()
Capitalize(s) ==
    IF Len(s) = 0 THEN "" ELSE UpperChar(SubSeq(s, 1, 1)) \o Lower(SubSeq(s, 2, Len(s)))

WordChars == CharsOf(UpperLetters \o LowerLetters \o "0123456789_")

IsWordChar(c) == c \in WordChars

\* re.search(r"\bword\b", line, re.I) for a word of word characters
WordSearch(word, line) ==
    LET low == Lower(line)
        n   == Len(word)
    IN  \E i \in 1..(Len(low) - n + 1) :
            /\ SubSeq(low, i, i + n - 1) = word
            /\ (i = 1 \/ ~IsWordChar(SubSeq(low, i - 1, i - 1)))
            /\ (i + n > Len(low) \/ ~IsWordChar(SubSeq(low, i + n, i + n)))

\* RepoAnalyzer._detect_framework; spec_fw is the lower-cased forced framework
_detect_framework(tree, spec_fw) ==
    IF spec_fw # None /\ spec_fw # "" THEN Capitalize(spec_fw)
    ELSE IF \E e \in tree.entries : e.name = "manage.py" THEN "Django"
    ELSE IF Len(tree.req_files) > 0
            /\ \E l \in Range(Flatten(tree.req_files)) : WordSearch("flask", l)
         THEN "Flask"
    ELSE IF Len(tree.req_files) > 0
            /\ \E l \in Range(Flatten(tree.req_files)) : WordSearch("fastapi", l)
         THEN "FastAPI"
    ELSE IF Len(tree.pkg_files) > 0
         THEN LET pkg  == tree.pkg_files[1]
                  deps == DictGet(pkg, "dependencies", {}) \cup DictGet(pkg, "devDependencies", {})
              IN  IF "express" \in deps THEN "Express" ELSE "Node.js"
    ELSE None

\* RepoAnalyzer.__init__: self.spec_fw
SpecFw(specified_framework) ==
    IF specified_framework = None \/ specified_framework = "" THEN None
    ELSE Lower(specified_framework)

\* RepoAnalyzer.analyze, the part of the fact record the engine reads; the tree itself
\* stands for repository_path
analyze(tree, specified_framework) ==
    LET deps == _collect_dependencies(tree)
    IN  [framework         |-> _detect_framework(tree, SpecFw(specified_framework)),
         dependencies      |-> deps,
         services_manifest |-> _infer_services(deps),
         repository_path   |-> tree]

\* ------------------------------------------------------------------------
\* decision_engine.py: DecisionEngine
\* ------------------------------------------------------------------------

DEFAULT_REGION == [AWS |-> "us-east-1", Azure |-> "eastus", GCP |-> "us-central1"]
_HEAVY_LIBS == {"tensorflow", "torch", "pytorch", "opencv", "pandas"}
static_dir_names == {"static", "public", "frontend", "assets"}

\* DecisionEngine.__init__: self.provider
InitProvider(nlp_info) == DictGet(nlp_info, "provider", "AWS")

\* DecisionEngine.__init__: self.preference
InitPreference(nlp_info) == Lower(OrElse(DictGet(nlp_info, "preference", None), ""))

\* DecisionEngine._has_frontend_static_files
_has_frontend_static_files(facts) ==
    IF "repository_path" \notin DOMAIN facts THEN FALSE
    ELSE \E e \in facts.repository_path.entries :
            \/ e.dir /\ Lower(e.name) \in static_dir_names
            \/ ~e.dir /\ Lower(e.name) = "index.html"

\* py_deps & self._HEAVY_LIBS
HeavyDeps(facts) ==
    Range(DictGet(facts.dependencies, "python", <<>>)) \cap _HEAVY_LIBS

\* Faulty variant: the accelerated-compute rule is tried before the user's preference
_choose_strategy_gpu_first(preference, facts, notes) ==
    LET manifest        == facts.services_manifest
        has_docker      == DictGet(facts.dependencies, "docker", FALSE)
        frontend_static == _has_frontend_static_files(facts)
        Ret(strategy, note) == [strategy |-> strategy, notes |-> Append(notes, note)]
    IN  IF manifest.needs_gpu
          THEN Ret("EC2-GPU", "GPU libraries detected")
        ELSE IF Contains("kubernetes", preference)
          THEN Ret("EKS", "User explicitly requested Kubernetes")
        ELSE IF Contains("serverless", preference)
          THEN Ret("Lambda", "User explicitly requested serverless")
        ELSE IF Contains("container", preference)
          THEN Ret("ECS", "User explicitly requested containers")
        ELSE IF manifest.db # None \/ manifest.queue # None
          THEN Ret("EC2", "Stateful service detected")
        ELSE IF frontend_static
          THEN Ret("EC2", "Frontend static files detected")
        ELSE IF has_docker
          THEN Ret("ECS", "Dockerfile present")
        ELSE IF HeavyDeps(facts) = {}
          THEN Ret("Lambda", "Lightweight runtime and no frontend static")
        ELSE Ret("EC2", "Default fallback")

\* DecisionEngine._choose_strategy on an engine whose self.notes holds `notes`:
\* the strategy returned and self.notes after the append
_choose_strategy(preference, facts, notes) ==
    LET manifest        == facts.services_manifest
        has_docker      == DictGet(facts.dependencies, "docker", FALSE)
        frontend_static == _has_frontend_static_files(facts)
        Ret(strategy, note) == [strategy |-> strategy, notes |-> Append(notes, note)]
    IN  IF Contains("kubernetes", preference)
          THEN Ret("EKS", "User explicitly requested Kubernetes")
        ELSE IF Contains("serverless", preference)
          THEN Ret("Lambda", "User explicitly requested serverless")
        ELSE IF Contains("container", preference)
          THEN Ret("ECS", "User explicitly requested containers")
        ELSE IF manifest.needs_gpu
          THEN Ret("EC2-GPU", "GPU libraries detected")
        ELSE IF manifest.db # None \/ manifest.queue # None
          THEN Ret("EC2", "Stateful service detected")
        ELSE IF frontend_static
          THEN Ret("EC2", "Frontend static files detected")
        ELSE IF has_docker
          THEN Ret("ECS", "Dockerfile present")
        ELSE IF HeavyDeps(facts) = {}
          THEN Ret("Lambda", "Lightweight runtime and no frontend static")
        ELSE Ret("EC2", "Default fallback")

\* DecisionEngine._runtime
_runtime(facts) ==
    LET fw == DictGet(facts, "framework", "")
    IN  IF fw \in {"Flask", "Django", "FastAPI"} THEN "python3.11"
        ELSE IF fw \in {"Express", "Node.js"} THEN "nodejs18.x"
        ELSE "custom"

\* DecisionEngine._instance_size
_instance_size(strategy) ==
    IF strategy = "EC2-GPU" THEN "g4dn.xlarge"
    ELSE IF strategy = "EC2" THEN "t3.small"
    ELSE IF strategy = "ECS" THEN "Fargate-0.5vCPU-1GB"
    ELSE None

\* DecisionEngine._db_service
_db_service(provider, facts) ==
    LET db == facts.services_manifest.db
    IN  IF db = None THEN None
        ELSE IF provider = "AWS" THEN "RDS_" \o db
        ELSE IF provider = "GCP" THEN "CloudSQL_" \o db
        ELSE IF provider = "Azure" THEN "AzureDB_" \o db
        ELSE db

\* DecisionEngine._cache_service
_cache_service(provider, facts) ==
    LET cache == facts.services_manifest.cache
    IN  IF cache # None /\ provider = "AWS" THEN "ElastiCache_Redis" ELSE cache

\* DecisionEngine._queue_service
_queue_service(provider, facts) ==
    LET queue == facts.services_manifest.queue
    IN  IF queue # None /\ provider = "AWS" THEN "SQS" ELSE queue

\* The subscripts make_plan and _choose_strategy apply without a default
\* (facts["services_manifest"][...], facts["dependencies"]): a missing key raises
PlanRaises(facts) ==
    \/ ~({"services_manifest", "dependencies"} \subseteq DOMAIN facts)
    \/ ~({"db", "cache", "queue", "needs_gpu"} \subseteq DOMAIN facts.services_manifest)

\* DecisionEngine.make_plan on an engine whose self.notes holds `notes`:
\* whether it raised, self.notes afterwards, and the plan dict it returns.  The
\* plan's "notes" entry is the list object self.notes itself, so the plan holds
\* the reference NotesRef and not a copy of the list.
NotesRef == "self.notes"

make_plan(provider, preference, facts, notes) ==
    IF PlanRaises(facts) THEN [raised |-> TRUE, notes |-> notes, plan |-> NoneObj]
    ELSE LET cs == _choose_strategy(preference, facts, notes)
         IN  [raised |-> FALSE,
              notes  |-> cs.notes,
              plan   |-> [provider  |-> provider,
                          region    |-> DictGet(DEFAULT_REGION, provider, "us-east-1"),
                          strategy  |-> cs.strategy,
                          runtime   |-> _runtime(facts),
                          size      |-> _instance_size(cs.strategy),
                          db        |-> _db_service(provider, facts),
                          cache     |-> _cache_service(provider, facts),
                          queue     |-> _queue_service(provider, facts),
                          needs_gpu |-> facts.services_manifest.needs_gpu,
                          notes     |-> NotesRef]]

\* ------------------------------------------------------------------------
\* Inputs of the decision engine: working trees and intents
\* ------------------------------------------------------------------------

MaxDeps == 2      \* lines per requirements.txt
MaxCalls == 2     \* make_plan calls on one engine

RequirementLines == {"flask==2.0", "psycopg2-binary", "redis", "celery", "torch", "pandas"}

RECURSIVE SeqsUpTo(_, _)
SeqsUpTo(S, n) ==
    IF n = 0 THEN {<<>>}
    ELSE LET shorter == SeqsUpTo(S, n - 1)
         IN  shorter \cup {Append(q, x) : q \in shorter, x \in S}

\* no requirements.txt, or one with up to MaxDeps lines
ReqFileChoices == {<<>>} \cup {<<lines>> : lines \in SeqsUpTo(RequirementLines, MaxDeps)}

PkgFileChoices == {<<>>, <<[dependencies |-> {"express", "Mongoose"}]>>}

EntryChoices == { {},
                  {[name |-> "Dockerfile", dir |-> FALSE]},
                  {[name |-> "Static", dir |-> TRUE]},
                  {[name |-> "index.html", dir |-> FALSE], [name |-> "Dockerfile", dir |-> FALSE]} }

Trees == [entries : EntryChoices, req_files : ReqFileChoices, pkg_files : PkgFileChoices]

ProviderValues == {None, "AWS", "GCP", "Azure", "Oracle"}
PreferenceValues == {None, "Serverless", "container", "kubernetes"}

\* nlp_info as run_pipeline builds it (every key present), and as the engine's own
\* demo builds it (no "framework" key); one without "provider"
NlpInfos ==
    [provider : ProviderValues, framework : {None}, preference : PreferenceValues]
    \cup [provider : {"AWS"}, framework : {"FastAPI"}, preference : {None}]
    \cup {[provider |-> "AWS", preference |-> None], [preference |-> None]}

\* ------------------------------------------------------------------------
\* The engine and its caller
\* ------------------------------------------------------------------------

\* a plan as its holder reads it now: the notes entry dereferenced
Deref(p) == IF p = NoneObj THEN p ELSE [p EXCEPT !.notes = eng_notes]

\* engine = DecisionEngine(nlp_info, facts); the caller calls engine.make_plan()
MakePlanCall ==
    /\ Len(eng_plans) < MaxCalls
    /\ LET r == make_plan(InitProvider(eng_nlp), InitPreference(eng_nlp), eng_facts, eng_notes)
       IN  /\ eng_notes' = r.notes
           /\ eng_plans' = Append(eng_plans, r.plan)
           /\ eng_first' = Append(eng_first,
                                  IF r.raised THEN NoneObj ELSE [r.plan EXCEPT !.notes = r.notes])
    /\ UNCHANGED <<eng_tree, eng_nlp, eng_facts, jobVars, rd, st, toolVars>>

\* ------------------------------------------------------------------------
\* main.py: the job table and run_pipeline
\* A log entry is [by, text]: text is the message, by the job whose worker
\* appended it (history).  Each step of a worker runs up to and including its
\* next access to the job table, so a stage and the log call after it are one step.
\* ------------------------------------------------------------------------

MaxJobs == 2          \* submissions in one run of the job table
MaxStreamJobs == 1    \* submissions while one log stream is followed

StageOrder == <<"intent", "analyze", "decide", "provision", "rewrite">>

\* the Exception messages a stage can end with
FetchErrors == {"Unsupported source format", "Could not download repo ZIP from GitHub"}
TerraformErrors == {"terraform init returned non-zero exit status",
                    "terraform apply returned non-zero exit status",
                    "terraform output returned non-zero exit status"}
RewriteErrors == {"'utf-8' codec can't decode byte"}
UnsupportedStrategy == "Unsupported strategy"

ErrorText(e) == "Error during deployment: " \o e

\* the intent and the tree of the submissions (the engine's own inputs are varied
\* in SpecEngine): run_pipeline passes preference None
PipelineNlp == {[provider |-> "AWS", framework |-> None, preference |-> None]}
PipelineTrees == {[entries |-> {}, req_files |-> << <<"flask==2.0", "psycopg2-binary">> >>,
                   pkg_files |-> <<>>]}

\* TerraformProvisioner._render: the strategies with a compute descriptor
RenderedStrategies == {"EC2", "EC2-GPU", "Lambda", "ECS"}

\* TerraformProvisioner._terraform_output for job j's working directory: the outputs
\* the rendered templates declare, flattened to name -> value
TerraformOutputs(j, p) ==
    LET host == "job" \o ToString(j)
        compute == IF p.strategy \in {"EC2", "EC2-GPU"} THEN [public_ip |-> "ip." \o host]
                   ELSE IF p.strategy = "Lambda" THEN [lambda_arn |-> "arn." \o host]
                   ELSE [cluster_name |-> "cluster." \o host]
        db == IF p.db # None THEN [db_endpoint |-> "db." \o host] ELSE <<>>
    IN  compute @@ db

\* Faulty variant: one log list shared by every job
log_shared(table, job_id, by, message) ==
    IF job_id \in 1..Len(table)
    THEN [table EXCEPT ![1].logs = Append(@, [by |-> by, text |-> message])]
    ELSE table

\* log(job_id, message), called by the worker of job `by`
log(table, job_id, by, message) ==
    IF job_id \in 1..Len(table)
    THEN [table EXCEPT ![job_id].logs = Append(@, [by |-> by, text |-> message])]
    ELSE table

\* deploy: a new job record under a fresh id; the pipeline is scheduled unless
\* neither repo_zip nor repo_url was given
Deploy(limit, src) ==
    /\ Len(jobs) < limit
    /\ jobs' = Append(jobs, [logs |-> <<>>, done |-> FALSE, result |-> NoneObj])
    /\ pc' = Append(pc, IF src = "none" THEN "unscheduled" ELSE "L75")
    /\ plan' = Append(plan, NoneObj)
    /\ outputs' = Append(outputs, NoneObj)
    /\ stages' = Append(stages, <<>>)
    /\ returned' = Append(returned, <<>>)
    /\ touched' = Append(touched, FALSE)
    /\ UNCHANGED <<rd, st, engVars, toolVars>>

\* Faulty variant: the except clause marks the failure without logging it
Except_silent(j, e) ==
    /\ jobs' = jobs
    /\ pc' = [pc EXCEPT ![j] = "L107"]

\* lines 105-106: the except clause logs the exception
Except(j, e) ==
    /\ jobs' = log(jobs, j, j, ErrorText(e))
    /\ pc' = [pc EXCEPT ![j] = "L107"]

\* a stage returned: the log call after it, and on to the next statement
Proceed(j, stage, message, next) ==
    /\ returned' = [returned EXCEPT ![j] = Append(@, stage)]
    /\ jobs' = log(jobs, j, j, message)
    /\ pc' = [pc EXCEPT ![j] = next]

\* line 75
LogStart(j) ==
    /\ pc[j] = "L75"
    /\ jobs' = log(jobs, j, j, "Starting deployment pipeline...")
    /\ pc' = [pc EXCEPT ![j] = "L76"]
    /\ UNCHANGED <<plan, outputs, stages, returned, touched, rd, st, engVars, toolVars>>

\* lines 76-77: extract(message)
Extract(j) ==
    /\ pc[j] = "L76"
    /\ stages' = [stages EXCEPT ![j] = Append(@, "intent")]
    /\ Proceed(j, "intent", "Parsed intent", "L79")
    /\ UNCHANGED <<plan, outputs, touched, rd, st, engVars, toolVars>>

\* lines 79-81: RepoAnalyzer(...).analyze(), fetch and analysis
Analyze(j) ==
    /\ pc[j] = "L79"
    /\ stages' = [stages EXCEPT ![j] = Append(@, "analyze")]
    /\ \/ Proceed(j, "analyze", "Repository analyzed", "L83")
       \/ \E e \in FetchErrors : Except(j, e) /\ UNCHANGED returned
    /\ UNCHANGED <<plan, outputs, touched, rd, st, engVars, toolVars>>

\* lines 80, 83-85: what make_plan returns for the facts of each repository
\* and the intent of each message a job can be given
PipelineDecisions ==
    {make_plan(InitProvider(nlp), InitPreference(nlp), analyze(tree, nlp.framework), <<>>) :
        nlp \in PipelineNlp, tree \in PipelineTrees}

\* lines 83-86: DecisionEngine(nlp_data, facts).make_plan()
Decide(j) ==
    /\ pc[j] = "L83"
    /\ stages' = [stages EXCEPT ![j] = Append(@, "decide")]
    /\ \E r \in PipelineDecisions :
             IF r.raised
             THEN Except(j, "KeyError") /\ UNCHANGED <<plan, returned>>
             ELSE /\ plan' = [plan EXCEPT ![j] = [r.plan EXCEPT !.notes = r.notes]]
                  /\ Proceed(j, "decide", "Deployment plan", "L88")
    /\ UNCHANGED <<outputs, touched, rd, st, engVars, toolVars>>

\* Faulty variant: a failed terraform step is swallowed and the pipeline goes on
Provision_lenient(j) ==
    /\ pc[j] = "L88"
    /\ stages' = [stages EXCEPT ![j] = Append(@, "provision")]
    /\ IF plan[j].strategy \notin RenderedStrategies
       THEN Except(j, UnsupportedStrategy) /\ UNCHANGED <<outputs, returned>>
       ELSE \/ /\ outputs' = [outputs EXCEPT ![j] = TerraformOutputs(j, plan[j])]
               /\ Proceed(j, "provision", "Provisioned resources", "L92")
            \/ /\ jobs' = log(jobs, j, j, "Provisioned resources")
               /\ pc' = [pc EXCEPT ![j] = "L92"]
               /\ UNCHANGED <<outputs, returned>>
    /\ UNCHANGED <<plan, touched, rd, st, engVars, toolVars>>

\* lines 88-90: TerraformProvisioner(plan, facts).apply()
Provision(j) ==
    /\ pc[j] = "L88"
    /\ stages' = [stages EXCEPT ![j] = Append(@, "provision")]
    /\ IF plan[j].strategy \notin RenderedStrategies
       THEN Except(j, UnsupportedStrategy) /\ UNCHANGED <<outputs, returned>>
       ELSE \/ /\ outputs' = [outputs EXCEPT ![j] = TerraformOutputs(j, plan[j])]
               /\ Proceed(j, "provision", "Provisioned resources", "L92")
            \/ \E e \in TerraformErrors : Except(j, e) /\ UNCHANGED <<outputs, returned>>
    /\ UNCHANGED <<plan, touched, rd, st, engVars, toolVars>>

\* lines 92-100: modify_code_for_deployment on the job's working tree
Rewrite(j) ==
    /\ pc[j] = "L92"
    /\ stages' = [stages EXCEPT ![j] = Append(@, "rewrite")]
    /\ touched' = [touched EXCEPT ![j] = TRUE]
    /\ \/ Proceed(j, "rewrite", "Code modified successfully for deployment.", "L102")
       \/ \E e \in RewriteErrors : Except(j, e) /\ UNCHANGED returned
    /\ UNCHANGED <<plan, outputs, rd, st, engVars, toolVars>>

\* Faulty variant: the result is never stored
StoreResult_skip(j) ==
    /\ pc[j] = "L102"
    /\ pc' = [pc EXCEPT ![j] = "L103"]
    /\ UNCHANGED <<jobs, plan, outputs, stages, returned, touched, rd, st, engVars, toolVars>>

\* line 102
StoreResult(j) ==
    /\ pc[j] = "L102"
    /\ jobs' = [jobs EXCEPT ![j].result = outputs[j]]
    /\ pc' = [pc EXCEPT ![j] = "L103"]
    /\ UNCHANGED <<plan, outputs, stages, returned, touched, rd, st, engVars, toolVars>>

\* line 103
SetDone(j) ==
    /\ pc[j] = "L103"
    /\ jobs' = [jobs EXCEPT ![j].done = TRUE]
    /\ pc' = [pc EXCEPT ![j] = "L104"]
    /\ UNCHANGED <<plan, outputs, stages, returned, touched, rd, st, engVars, toolVars>>

\* line 104
LogCompleted(j) ==
    /\ pc[j] = "L104"
    /\ jobs' = log(jobs, j, j, "Deployment pipeline completed.")
    /\ pc' = [pc EXCEPT ![j] = "ok"]
    /\ UNCHANGED <<plan, outputs, stages, returned, touched, rd, st, engVars, toolVars>>

\* line 107
ErrDone(j) ==
    /\ pc[j] = "L107"
    /\ jobs' = [jobs EXCEPT ![j].done = TRUE]
    /\ pc' = [pc EXCEPT ![j] = "L108"]
    /\ UNCHANGED <<plan, outputs, stages, returned, touched, rd, st, engVars, toolVars>>

\* line 108
ErrResult(j) ==
    /\ pc[j] = "L108"
    /\ jobs' = [jobs EXCEPT ![j].result = NoneObj]
    /\ pc' = [pc EXCEPT ![j] = "err"]
    /\ UNCHANGED <<plan, outputs, stages, returned, touched, rd, st, engVars, toolVars>>

InitJobs ==
    /\ jobs = <<>>
    /\ pc = <<>>
    /\ plan = <<>>
    /\ outputs = <<>>
    /\ stages = <<>>
    /\ returned = <<>>
    /\ touched = <<>>

\* ------------------------------------------------------------------------
\* main.py: get_logs, one request at a time.  The handler reads done and then
\* result; the log list it returns by reference is read when the response is
\* serialised.
\* ------------------------------------------------------------------------

IdleReader == [pc |-> "idle", job |-> 0, done |-> FALSE, result |-> NoneObj, logs |-> <<>>]

\* lines 58-60: unknown id -> 404, else read jobs[job_id]["done"]
GetLogs(j) ==
    /\ rd.pc \in {"idle", "returned", "404"}
    /\ rd' = IF j \in 1..Len(jobs)
             THEN [IdleReader EXCEPT !.pc = "result", !.job = j, !.done = jobs[j].done]
             ELSE [IdleReader EXCEPT !.pc = "404", !.job = j]
    /\ UNCHANGED <<jobVars, st, engVars, toolVars>>

\* line 60: read jobs[job_id]["result"]
ReadResult ==
    /\ rd.pc = "result"
    /\ rd' = [rd EXCEPT !.pc = "send", !.result = jobs[rd.job].result]
    /\ UNCHANGED <<jobVars, st, engVars, toolVars>>

\* the response is serialised: the log as it is now
Respond ==
    /\ rd.pc = "send"
    /\ rd' = [rd EXCEPT !.pc = "returned", !.logs = jobs[rd.job].logs]
    /\ UNCHANGED <<jobVars, st, engVars, toolVars>>

\* ------------------------------------------------------------------------
\* main.py: stream_logs, one generator.  new_lines and yielded pair each entry
\* with its index in the log (history).
\* ------------------------------------------------------------------------

IdleStream == [pc |-> "idle", job |-> 0, last_line |-> 0, new_lines |-> <<>>, yielded |-> <<>>]

\* logs[last_line:], each entry with its 1-based position
Slice(logs, last_line) ==
    [k \in 1..(IF Len(logs) > last_line THEN Len(logs) - last_line ELSE 0) |->
        [idx |-> last_line + k, entry |-> logs[last_line + k]]]

\* lines 62-66 and 21: unknown id -> 404, else the generator starts
OpenStream(j) ==
    /\ st.pc = "idle"
    /\ st' = [IdleStream EXCEPT !.pc = IF j \in 1..Len(jobs) THEN "sleep" ELSE "404",
                                !.job = j]
    /\ UNCHANGED <<jobVars, rd, engVars, toolVars>>

\* lines 23-27: after the sleep, new_lines = logs[last_line:]
Poll ==
    /\ st.pc = "sleep"
    /\ st' = IF st.job \in 1..Len(jobs)
             THEN [st EXCEPT !.pc = "L28", !.new_lines = Slice(jobs[st.job].logs, st.last_line)]
             ELSE [st EXCEPT !.pc = "closed"]
    /\ UNCHANGED <<jobVars, rd, engVars, toolVars>>

\* Faulty variant: the cursor counts the lines of the last poll only
SetCursor_stale ==
    /\ st.pc = "L28"
    /\ st' = [st EXCEPT !.pc = "L29", !.last_line = Len(st.new_lines)]
    /\ UNCHANGED <<jobVars, rd, engVars, toolVars>>

\* line 28: last_line = len(logs)
SetCursor ==
    /\ st.pc = "L28"
    /\ st' = [st EXCEPT !.pc = "L29", !.last_line = Len(jobs[st.job].logs)]
    /\ UNCHANGED <<jobVars, rd, engVars, toolVars>>

\* lines 29-32: yield the new lines, then break if the job is done
YieldLines ==
    /\ st.pc = "L29"
    /\ st' = [st EXCEPT !.pc = IF jobs[st.job].done THEN "closed" ELSE "sleep",
                        !.yielded = @ \o st.new_lines,
                        !.new_lines = <<>>]
    /\ UNCHANGED <<jobVars, rd, engVars, toolVars>>

\* ------------------------------------------------------------------------
\* terraform_provisioning.py: TerraformProvisioner.apply()
\* tf.files is the rendered directory (file name -> what the file declares),
\* tf.calls the invocations of the terraform binary so far, each [cmd, exit].
\* ------------------------------------------------------------------------

ExitCodes == {0, 1}

\* Faulty variant: the exit status of the process is not looked at
check_call_unchecked(code) == FALSE

\* subprocess.check_call(...) and subprocess.run(..., check=True): whether the call
\* raises CalledProcessError
check_call(code) == code # 0

\* provider.tf and variables.tf, written for every strategy (lines 57-61)
CommonFiles(p) ==
    ("provider.tf" :> [declares |-> "provider", detail |-> p.region])
    @@ ("variables.tf" :> [declares |-> "variable", detail |-> "app_name"])

\* db.tf, written when the plan selects a database (lines 86-91)
DbFile(p) ==
    IF p.db # None /\ p.db # ""
    THEN "db.tf" :> [declares |-> "aws_db_instance", detail |-> p.db]
    ELSE <<>>

\* Faulty variant: a strategy without a template gets the virtual machine
_render_default(p) ==
    LET main == IF p.strategy = "Lambda"
                THEN [declares |-> "aws_lambda_function", detail |-> "python3.11"]
                ELSE IF p.strategy = "ECS"
                THEN [declares |-> "aws_ecs_cluster", detail |-> "512/1024"]
                ELSE [declares |-> "aws_instance", detail |-> OrElse(p.size, "t3.small")]
    IN  [raised |-> FALSE, files |-> CommonFiles(p) @@ ("main.tf" :> main) @@ DbFile(p)]

\* TerraformProvisioner._render: whether it raises ValueError, and the files in the
\* working directory when it returns or raises
_render(p) ==
    IF p.strategy \in {"EC2", "EC2-GPU"}
    THEN [raised |-> FALSE,
          files  |-> CommonFiles(p)
                     @@ ("main.tf" :> [declares |-> "aws_instance",
                                       detail   |-> OrElse(p.size, "t3.small")])
                     @@ DbFile(p)]
    ELSE IF p.strategy = "Lambda"
    THEN [raised |-> FALSE,
          files  |-> CommonFiles(p)
                     @@ ("main.tf" :> [declares |-> "aws_lambda_function",
                                       detail   |-> "python3.11"])
                     @@ DbFile(p)]
    ELSE IF p.strategy = "ECS"
    THEN [raised |-> FALSE,
          files  |-> CommonFiles(p)
                     @@ ("main.tf" :> [declares |-> "aws_ecs_cluster",
                                       detail   |-> "512/1024"])
                     @@ DbFile(p)]
    ELSE [raised |-> TRUE, files |-> CommonFiles(p)]

\* the plans a provisioner can be constructed with: those make_plan returns
ProvisionerPlans ==
    {make_plan(InitProvider(nlp), InitPreference(nlp),
               analyze(tree, DictGet(nlp, "framework", None)), <<>>).plan :
        tree \in Trees, nlp \in NlpInfos}

IdleProvisioner == [pc |-> "idle", plan |-> NoneObj, files |-> <<>>, calls |-> <<>>,
                    result |-> NoneObj]

\* prov = TerraformProvisioner(plan, facts); prov.apply() is about to run
InitProvisioner ==
    \E p \in ProvisionerPlans :
        tf = [pc |-> "L43", plan |-> p, files |-> <<>>, calls |-> <<>>, result |-> NoneObj]

\* line 43: self._render()
TfRender ==
    /\ tf.pc = "L43"
    /\ LET r == _render(tf.plan)
       IN  tf' = [tf EXCEPT !.files = r.files,
                            !.pc = IF r.raised THEN "raised" ELSE "L44"]
    /\ UNCHANGED <<jobVars, rd, st, engVars, cm, fx>>

\* one invocation of the terraform binary in the rendered directory
Invoke(cmd, code, next) ==
    tf' = [tf EXCEPT !.calls = Append(@, [cmd |-> cmd, exit |-> code]),
                     !.pc = IF check_call(code) THEN "raised" ELSE next]

\* line 44: self._terraform_init()
TfInit ==
    /\ tf.pc = "L44"
    /\ \E code \in ExitCodes : Invoke("init", code, "L45")
    /\ UNCHANGED <<jobVars, rd, st, engVars, cm, fx>>

\* line 45: self._terraform_apply()
TfApply ==
    /\ tf.pc = "L45"
    /\ \E code \in ExitCodes : Invoke("apply", code, "L46")
    /\ UNCHANGED <<jobVars, rd, st, engVars, cm, fx>>

\* line 46: return self._terraform_output()
TfOutput ==
    /\ tf.pc = "L46"
    /\ \E code \in ExitCodes :
         tf' = [tf EXCEPT !.calls = Append(@, [cmd |-> "output", exit |-> code]),
                          !.pc = IF check_call(code) THEN "raised" ELSE "returned",
                          !.result = IF check_call(code) THEN NoneObj
                                     ELSE TerraformOutputs(0, tf.plan)]
    /\ UNCHANGED <<jobVars, rd, st, engVars, cm, fx>>

\* ------------------------------------------------------------------------
\* code_modifier.py and RepoAnalyzer._scan_mod_points
\* ------------------------------------------------------------------------

\* A working tree here is a function from file names to [text, utf8]: text is the
\* file's content and utf8 tells whether its bytes decode as UTF-8.

\* the character at position i of s, "" outside s
At(s, i) == IF i \in 1..Len(s) THEN SubSeq(s, i, i) ELSE ""

IsDigit(c) == c \in CharsOf("0123456789")
IsSpace(c) == c \in {" ", "\t"}

RECURSIVE DigitRun(_, _)
\* the length of the run of digits that starts at position i (\d+, \d{2,5})
DigitRun(s, i) == IF IsDigit(At(s, i)) THEN 1 + DigitRun(s, i + 1) ELSE 0

RECURSIVE SpaceRun(_, _)
\* the length of the run of white space that starts at position i (\s*)
SpaceRun(s, i) == IF IsSpace(At(s, i)) THEN 1 + SpaceRun(s, i + 1) ELSE 0

RECURSIVE splitlines(_)
\* str.splitlines(): the lines without their terminators \n, \r\n, \r
splitlines(s) ==
    IF Len(s) = 0 THEN <<>>
    ELSE LET brk == {i \in 1..Len(s) : At(s, i) \in {"\n", "\r"}}
         IN  IF brk = {} THEN <<s>>
             ELSE LET i == CHOOSE k \in brk : \A m \in brk : k <= m
                      w == IF At(s, i) = "\r" /\ At(s, i + 1) = "\n" THEN 2 ELSE 1
                  IN  <<SubSeq(s, 1, i - 1)>> \o splitlines(SubSeq(s, i + w, Len(s)))

RECURSIVE join_doubled(_, _)
\* Faulty variant: the separator is written twice between two lines
join_doubled(sep, lines) ==
    IF Len(lines) = 0 THEN ""
    ELSE IF Len(lines) = 1 THEN lines[1]
    ELSE lines[1] \o sep \o sep \o join_doubled(sep, Tail(lines))

RECURSIVE join(_, _)
\* sep.join(lines)
join(sep, lines) ==
    IF Len(lines) = 0 THEN ""
    ELSE IF Len(lines) = 1 THEN lines[1]
    ELSE lines[1] \o sep \o join(sep, Tail(lines))

RECURSIVE replace(_, _, _)
\* s.replace(old, new): every non-overlapping occurrence, left to right
replace(s, old, new) ==
    IF Len(s) < Len(old) THEN s
    ELSE IF SubSeq(s, 1, Len(old)) = old
    THEN new \o replace(SubSeq(s, Len(old) + 1, Len(s)), old, new)
    ELSE SubSeq(s, 1, 1) \o replace(SubSeq(s, 2, Len(s)), old, new)

\* Path(name).suffix: from the last dot of the name on
suffix(name) ==
    LET dots == {i \in 2..Len(name) : At(name, i) = "."}
    IN  IF dots = {} THEN ""
        ELSE SubSeq(name, CHOOSE k \in dots : \A m \in dots : m <= k, Len(name))

\* LOCAL_PAT.search(line): (localhost|127\.0\.0\.1), re.I
LOCAL_PAT(line) == Contains("localhost", Lower(line)) \/ Contains("127.0.0.1", line)

\* PORT_PAT matches at position i:
\*   (?<!\w)(port\s*=?\s*\d{2,5}|:\d{2,5})(?!\w), re.I
\* the digits are a whole run of 2 to 5 digits, since a shorter match would be
\* followed by a digit, which is a word character
PortPatAt(line, i) ==
    /\ ~IsWordChar(At(line, i - 1))
    /\ \/ /\ i + 3 <= Len(line)
          /\ Lower(SubSeq(line, i, i + 3)) = "port"
          /\ LET j1 == i + 4 + SpaceRun(line, i + 4)
                 j2 == IF At(line, j1) = "=" THEN j1 + 1 ELSE j1
                 j3 == j2 + SpaceRun(line, j2)
                 r  == DigitRun(line, j3)
             IN  r \in 2..5 /\ ~IsWordChar(At(line, j3 + r))
       \/ /\ At(line, i) = ":"
          /\ LET r == DigitRun(line, i + 1)
             IN  r \in 2..5 /\ ~IsWordChar(At(line, i + 1 + r))

\* PORT_PAT.search(line)
PORT_PAT(line) == \E i \in 1..Len(line) : PortPatAt(line, i)

\* RepoAnalyzer._scan_mod_points for one file: one candidate at most per line, the
\* loopback check first
ScanFile(name, text) ==
    LET lines == splitlines(text)
        Hit(i) == IF LOCAL_PAT(lines[i])
                  THEN <<[file |-> name, line |-> i, kind |-> "localhost_ref",
                          snippet |-> Strip(lines[i])]>>
                  ELSE IF PORT_PAT(lines[i])
                  THEN <<[file |-> name, line |-> i, kind |-> "port_config",
                          snippet |-> Strip(lines[i])]>>
                  ELSE <<>>
    IN  Flatten([i \in 1..Len(lines) |-> Hit(i)])

RECURSIVE InDirectoryOrder(_)
\* the names of S in the order the directory walk yields them
InDirectoryOrder(S) ==
    IF S = {} THEN <<>>
    ELSE LET n == CHOOSE x \in S : TRUE IN <<n>> \o InDirectoryOrder(S \ {n})

\* list(self.workdir.rglob("*" + suf))
Globbed(fs, suf) == InDirectoryOrder({n \in DOMAIN fs : suffix(n) = suf})

\* RepoAnalyzer._scan_mod_points: every *.py file, then every *.js file; files are
\* read with errors="ignore", so a file that is not UTF-8 is scanned as well
_scan_mod_points(fs) ==
    LET code_files == Globbed(fs, ".py") \o Globbed(fs, ".js")
    IN  Flatten([k \in 1..Len(code_files) |->
                    ScanFile(code_files[k], fs[code_files[k]].text)])

\* lines 39-46: the replacement text, chosen by what the line mentions
Replacement(original_line, service_endpoints) ==
    LET line_lower == Lower(original_line)
    IN  IF \/ Contains("database", line_lower)
           \/ Contains("db_", line_lower)
           \/ Contains("postgres", line_lower)
        THEN DictGet(service_endpoints, "DB_HOST", "DB_HOST")
        ELSE IF Contains("redis", line_lower)
        THEN DictGet(service_endpoints, "REDIS_HOST", "REDIS_HOST")
        ELSE DictGet(service_endpoints, "APP_HOST", "APP_HOST")

\* lines 37-59: the localhost_ref substitution, by the suffix of the file
LocalhostSub(name, original_line, service_endpoints) ==
    LET r == Replacement(original_line, service_endpoints)
    IN  IF suffix(name) = ".py"
        THEN replace(replace(original_line,
                             "localhost", "os.environ.get('" \o r \o "', 'localhost')"),
                     "127.0.0.1", "os.environ.get('" \o r \o "', '127.0.0.1')")
        ELSE IF suffix(name) \in {".js", ".ts"}
        THEN replace(replace(original_line,
                             "localhost", "process.env." \o r \o " || 'localhost'"),
                     "127.0.0.1", "process.env." \o r \o " || '127.0.0.1'")
        ELSE replace(replace(original_line, "localhost", r), "127.0.0.1", r)

\* port_pattern matches at position i with its first alternative
\*   (\bport\s*=\s*)(\d+), re.I
\* the position after the prefix, 0 when there is no match
PortAssignAt(line, i) ==
    IF /\ ~IsWordChar(At(line, i - 1))
       /\ i + 3 <= Len(line)
       /\ Lower(SubSeq(line, i, i + 3)) = "port"
    THEN LET j1 == i + 4 + SpaceRun(line, i + 4)
             j2 == j1 + 1 + SpaceRun(line, j1 + 1)
         IN  IF At(line, j1) = "=" /\ DigitRun(line, j2) >= 1 THEN j2 ELSE 0
    ELSE 0

RECURSIVE PortSubFrom(_, _)
\* port_pattern.sub(port_replacer, line) from position i on: each match of
\*   (\bport\s*=\s*)(\d+)|(:)(\d+)
\* becomes its prefix followed by ${PORT}
PortSubFrom(line, i) ==
    IF i > Len(line) THEN ""
    ELSE LET j == PortAssignAt(line, i)
         IN  IF j > 0
             THEN SubSeq(line, i, j - 1) \o "${PORT}"
                  \o PortSubFrom(line, j + DigitRun(line, j))
             ELSE IF At(line, i) = ":" /\ DigitRun(line, i + 1) >= 1
             THEN ":${PORT}" \o PortSubFrom(line, i + 1 + DigitRun(line, i + 1))
             ELSE At(line, i) \o PortSubFrom(line, i + 1)

\* lines 34-70: new_line for one candidate
NewLine(mod, original_line, service_endpoints) ==
    IF mod.kind = "localhost_ref"
    THEN LocalhostSub(mod.file, original_line, service_endpoints)
    ELSE IF mod.kind = "port_config"
    THEN PortSubFrom(original_line, 1)
    ELSE original_line

\* lines 23-78, the body of the loop for one candidate: what happened, the tree
\* afterwards, and the line before and after the substitution
ModifyOne(fs, mod, service_endpoints) ==
    IF mod.file \notin DOMAIN fs
    THEN [outcome |-> "missing", fs |-> fs, original_line |-> None, new_line |-> None]
    ELSE IF ~fs[mod.file].utf8
    THEN [outcome |-> "raised", fs |-> fs, original_line |-> None, new_line |-> None]
    ELSE LET lines    == splitlines(fs[mod.file].text)
             line_idx == mod.line - 1
         IN  IF line_idx < 0 \/ line_idx >= Len(lines)
             THEN [outcome |-> "invalid", fs |-> fs,
                   original_line |-> None, new_line |-> None]
             ELSE LET original_line == lines[line_idx + 1]
                      new_line == NewLine(mod, original_line, service_endpoints)
                      written  == [lines EXCEPT ![line_idx + 1] = new_line]
                  IN  [outcome |-> IF new_line # original_line THEN "modified"
                                   ELSE "no change",
                       fs |-> [fs EXCEPT ![mod.file].text = join("\n", written)],
                       original_line |-> original_line,
                       new_line |-> new_line]

\* main.py lines 92-97: env_vars, the endpoint map handed to the rewriter
EnvVars(outs) ==
    [DB_HOST    |-> DictGet(outs, "db_endpoint", "DB_HOST"),
     REDIS_HOST |-> DictGet(outs, "cache_endpoint", "REDIS_HOST"),
     APP_HOST   |-> DictGet(outs, "public_ip", "APP_HOST"),
     PORT       |-> ToString(DictGet(outs, "port", 8080))]

MaxMods == 2     \* candidates in a list passed by a direct caller
MaxLine == 3     \* largest line number a direct caller names
MaxRuns == 2     \* passes of scan + rewrite over one tree

\* the working trees
RewriteTrees ==
    { "app.py" :> [text |-> "import os\napp.run(host=\"127.0.0.1\", port=5000)\n",
                   utf8 |-> TRUE],
      ("app.py" :> [text |-> "DB_URL = 'postgres://localhost/app'\r\nport = 8080",
                    utf8 |-> TRUE])
        @@ ("server.js" :> [text |-> "const cache = redis('localhost');\n",
                            utf8 |-> TRUE]),
      "legacy.py" :> [text |-> "HOST = 'localhost'\n", utf8 |-> FALSE],
      ("settings.py" :> [text |-> "PORT 3000\nDEBUG = True", utf8 |-> TRUE])
        @@ ("hosts.cfg" :> [text |-> "localhost\n", utf8 |-> TRUE]) }

\* the endpoint maps run_pipeline can pass
PipelineEndpoints ==
    {EnvVars(TerraformOutputs(0, p)) :
        p \in {q \in ProvisionerPlans : q.strategy \in RenderedStrategies}}

\* the candidates a direct caller can name for a tree
Candidates(fs) ==
    [file : DOMAIN fs \cup {"gone.py"},
     line : 0..MaxLine,
     kind : {"localhost_ref", "port_config"}]

IdleRewriter ==
    [pc |-> "idle", mode |-> "none", run |-> 0, fs |-> <<>>, fs0 |-> <<>>,
     service_endpoints |-> <<>>, mod_map |-> <<>>, i |-> 1, ret |-> NoneObj,
     hist |-> <<>>]

\* a working tree and an endpoint map, before modify_code_for_deployment is called
InitRewriter ==
    \E fs \in RewriteTrees, se \in PipelineEndpoints \cup {<<>>} :
        cm = [IdleRewriter EXCEPT !.pc = "start", !.fs = fs, !.fs0 = fs,
                                  !.service_endpoints = se]

\* main.py line 99 after analyze(): the candidates are those of _scan_mod_points;
\* a later run scans and rewrites the tree the run before left
PipelineCall ==
    /\ \/ cm.pc = "start"
       \/ cm.pc = "returned" /\ cm.mode = "pipeline" /\ cm.run < MaxRuns
    /\ cm.service_endpoints \in PipelineEndpoints
    /\ cm' = [cm EXCEPT !.pc = "loop", !.mode = "pipeline", !.run = @ + 1,
                        !.mod_map = _scan_mod_points(cm.fs), !.i = 1]
    /\ UNCHANGED <<jobVars, rd, st, engVars, tf, fx>>

\* modify_code_for_deployment called with a candidate list of the caller's own
DirectCall ==
    /\ cm.pc = "start"
    /\ \E mods \in SeqsUpTo(Candidates(cm.fs), MaxMods) :
         cm' = [cm EXCEPT !.pc = "loop", !.mode = "direct", !.run = @ + 1,
                          !.mod_map = mods, !.i = 1]
    /\ UNCHANGED <<jobVars, rd, st, engVars, tf, fx>>

\* lines 22-78: one iteration of the loop
ModifyStep ==
    /\ cm.pc = "loop"
    /\ cm.i <= Len(cm.mod_map)
    /\ LET mod == cm.mod_map[cm.i]
           r   == ModifyOne(cm.fs, mod, cm.service_endpoints)
       IN  cm' = [cm EXCEPT
                    !.fs = r.fs,
                    !.i  = IF r.outcome = "raised" THEN @ ELSE @ + 1,
                    !.pc = IF r.outcome = "raised" THEN "raised" ELSE "loop",
                    !.hist = Append(@, [run |-> cm.run, at |-> cm.i, mod |-> mod,
                                        outcome |-> r.outcome,
                                        original_line |-> r.original_line,
                                        new_line |-> r.new_line,
                                        before |-> cm.fs, after |-> r.fs])]
    /\ UNCHANGED <<jobVars, rd, st, engVars, tf, fx>>

\* the loop is over: the function ends without a return statement
ModifyReturn ==
    /\ cm.pc = "loop"
    /\ cm.i > Len(cm.mod_map)
    /\ cm' = [cm EXCEPT !.pc = "returned", !.ret = NoneObj]
    /\ UNCHANGED <<jobVars, rd, st, engVars, tf, fx>>

\* ------------------------------------------------------------------------
\* RepoAnalyzer._fetch
\* ------------------------------------------------------------------------

\* The scratch directory is a set of entries [path, dir], the paths relative to it:
\* self.workdir is <<"repo">>, temp_extract <<"zip_tmp">>, tmp_zip <<"download.zip">>.

workdir == <<"repo">>
temp_extract == <<"zip_tmp">>
tmp_zip == <<"download.zip">>

PathExists(fs, p) == \E e \in fs : e.path = p
IsDir(fs, p) == [path |-> p, dir |-> TRUE] \in fs

\* shutil.rmtree(p)
rmtree(fs, p) == {e \in fs : ~IsPrefix(p, e.path)}

\* p.iterdir()
iterdir(fs, p) == {e \in fs : Len(e.path) = Len(p) + 1 /\ IsPrefix(p, e.path)}

\* shutil.move(src, dst): into dst when dst is an existing directory (an error when
\* the name is taken there), onto dst otherwise
move(fs, src, dst) ==
    LET real_dst == IF IsDir(fs, dst) THEN Append(dst, src[Len(src)]) ELSE dst
    IN  IF IsDir(fs, dst) /\ PathExists(fs, real_dst)
        THEN [raised |-> TRUE, fs |-> fs]
        ELSE [raised |-> FALSE,
              fs |-> {IF IsPrefix(src, e.path)
                      THEN [e EXCEPT !.path = real_dst
                                       \o SubSeq(e.path, Len(src) + 1, Len(e.path))]
                      ELSE e : e \in fs}]

\* zf.extractall(temp_extract)
extractall(fs, archive, target) ==
    fs \cup {[path |-> target, dir |-> TRUE]}
       \cup {[path |-> target \o e.path, dir |-> e.dir] : e \in archive}

\* RepoAnalyzer._extract_zip for an archive that opens
_extract_zip(fs, archive) ==
    LET cleared   == rmtree(fs, temp_extract)
        extracted == extractall(cleared, archive, temp_extract)
        children  == iterdir(extracted, temp_extract)
    IN  IF Cardinality(children) = 1 /\ \A c \in children : c.dir
        THEN LET child == CHOOSE c \in children : TRUE
                 moved == move(extracted, child.path, workdir)
             IN  IF moved.raised THEN moved
                 ELSE [raised |-> FALSE, fs |-> rmtree(moved.fs, temp_extract)]
        ELSE move(extracted, temp_extract, workdir)

\* what an HTTP download of an archive followed by its extraction can end with:
\* success, HTTPError 404, HTTPError with another status, a ConnectionError,
\* a BadZipFile
DownloadOutcomes == {"ok", "HTTPError 404", "HTTPError 500", "ConnectionError", "BadZipFile"}

\* RepoAnalyzer._download_and_extract_zip: the exception it raises (None when it
\* returns) and the scratch directory afterwards
_download_and_extract_zip(fs, archive, outcome) ==
    IF outcome \in {"HTTPError 404", "HTTPError 500", "ConnectionError"}
    THEN [raised |-> outcome, fs |-> fs]
    ELSE LET saved == fs \cup {[path |-> tmp_zip, dir |-> FALSE]}
         IN  IF outcome = "BadZipFile" THEN [raised |-> outcome, fs |-> saved]
             ELSE LET x == _extract_zip(saved, archive)
                  IN  IF x.raised THEN [raised |-> "shutil.Error", fs |-> x.fs]
                      ELSE [raised |-> None,
                            fs |-> {e \in x.fs : e.path # tmp_zip}]

\* the top-level files of the project every archive and repository holds
ProjectFiles == {"app.py", "requirements.txt"}

\* archives: the project wrapped in one top-level folder, the project at top
\* level, and the wrapped project next to a second top-level entry
ArchiveLayouts ==
    { {[path |-> <<"proj">>, dir |-> TRUE]}
          \cup {[path |-> <<"proj", f>>, dir |-> FALSE] : f \in ProjectFiles},
      {[path |-> <<f>>, dir |-> FALSE] : f \in ProjectFiles},
      {[path |-> <<"proj">>, dir |-> TRUE], [path |-> <<"__MACOSX">>, dir |-> TRUE]}
          \cup {[path |-> <<"proj", f>>, dir |-> FALSE] : f \in ProjectFiles} }

\* sources: [text, local] with local telling whether a file of that name exists
FetchSources ==
    { [text |-> "/tmp/app.zip", local |-> TRUE],
      [text |-> "/tmp/gone.zip", local |-> FALSE],
      [text |-> "https://example.com/App.ZIP", local |-> FALSE],
      [text |-> "https://github.com/acme/app", local |-> FALSE],
      [text |-> "git@github.com:acme/app.git", local |-> FALSE],
      [text |-> "https://gitlab.com/acme/app", local |-> FALSE],
      [text |-> "ftp://example.com/app", local |-> FALSE] }

EndsWith(s, t) == Len(t) <= Len(s) /\ SubSeq(s, Len(s) - Len(t) + 1, Len(s)) = t

\* urllib.parse.urlparse(source).netloc: what stands between "//" and the next "/"
netloc(source) ==
    LET starts == {i \in 1..(Len(source) - 1) : SubSeq(source, i, i + 1) = "//"}
    IN  IF starts = {} THEN ""
        ELSE LET a    == 2 + CHOOSE i \in starts : \A m \in starts : i <= m
                 ends == {i \in a..Len(source) : At(source, i) = "/"}
                 b    == IF ends = {} THEN Len(source) + 1
                         ELSE CHOOSE i \in ends : \A m \in ends : i <= m
             IN  SubSeq(source, a, b - 1)

\* the branches _fallback_to_github_zip tries, in order (line 179)
Branches == <<"main", "master">>

IdleFetch ==
    [pc |-> "idle", source |-> [text |-> "", local |-> FALSE], archive |-> {},
     has_gitpython |-> FALSE, fs |-> {}, cloned |-> "no", fallback |-> FALSE, branch |-> 1,
     attempts |-> <<>>, error |-> None]

\* analyzer = RepoAnalyzer(source): the work directory exists (line 77), _fetch is
\* about to run
InitFetcher ==
    \E src \in FetchSources, a \in ArchiveLayouts, g \in BOOLEAN :
        fx = [IdleFetch EXCEPT !.pc = "L108", !.source = src, !.archive = a,
                               !.has_gitpython = g,
                               !.fs = {[path |-> workdir, dir |-> TRUE]}]

Raise(e) == fx' = [fx EXCEPT !.pc = "raised", !.error = e]

\* lines 108-127 and 142: the work directory is emptied and the source classified
FetchDispatch ==
    /\ fx.pc = "L108"
    /\ LET src   == Lower(fx.source.text)
           fresh == rmtree(fx.fs, workdir) \cup {[path |-> workdir, dir |-> TRUE]}
           next  == IF EndsWith(src, ".zip") /\ fx.source.local THEN "L117"
                    ELSE IF EndsWith(src, ".zip")
                            /\ (IsPrefix("http://", src) \/ IsPrefix("https://", src))
                    THEN "L123"
                    ELSE IF \E pre \in {"http://", "https://", "git@"} :
                               IsPrefix(pre, fx.source.text)
                    THEN IF fx.has_gitpython THEN "L131" ELSE "L139"
                    ELSE "raised"
       IN  fx' = [fx EXCEPT !.pc = next, !.fs = fresh,
                            !.error = IF next = "raised" THEN "Unsupported source format"
                                      ELSE None]
    /\ UNCHANGED <<jobVars, rd, st, engVars, tf, cm>>

\* line 117: self._extract_zip(Path(self.source))
ExtractLocal ==
    /\ fx.pc = "L117"
    /\ \/ Raise("BadZipFile")
       \/ LET x == _extract_zip(fx.fs, fx.archive)
          IN  IF x.raised THEN Raise("shutil.Error")
              ELSE fx' = [fx EXCEPT !.pc = "returned", !.fs = x.fs]
    /\ UNCHANGED <<jobVars, rd, st, engVars, tf, cm>>

\* line 123: self._download_and_extract_zip(self.source)
DownloadRemote ==
    /\ fx.pc = "L123"
    /\ \E outcome \in DownloadOutcomes :
         LET d == _download_and_extract_zip(fx.fs, fx.archive, outcome)
         IN  fx' = [fx EXCEPT !.pc = IF d.raised = None THEN "returned" ELSE "raised",
                              !.fs = d.fs, !.error = d.raised]
    /\ UNCHANGED <<jobVars, rd, st, engVars, tf, cm>>

\* lines 129-134: git.Repo.clone_from(self.source, self.workdir); a failure is
\* printed and the fallback follows
Clone ==
    /\ fx.pc = "L131"
    /\ \/ fx' = [fx EXCEPT !.pc = "returned", !.cloned = "ok",
                           !.fs = @ \cup {[path |-> Append(workdir, f), dir |-> FALSE] :
                                             f \in ProjectFiles}]
       \/ fx' = [fx EXCEPT !.pc = "L139", !.cloned = "failed"]
    /\ UNCHANGED <<jobVars, rd, st, engVars, tf, cm>>

\* lines 174-176: the fallback is for sources whose netloc names github.com
FallbackHost ==
    /\ fx.pc = "L139"
    /\ IF Contains("github.com", netloc(fx.source.text))
       THEN fx' = [fx EXCEPT !.pc = "L179", !.branch = 1, !.fallback = TRUE]
       ELSE fx' = [fx EXCEPT !.pc = "raised", !.fallback = TRUE,
                             !.error = "ZIP fallback only implemented for GitHub URLs."]
    /\ UNCHANGED <<jobVars, rd, st, engVars, tf, cm>>

\* lines 179-188: one branch archive is tried; only HTTPError 404 leads to the
\* next branch, any other exception leaves the loop
TryBranch ==
    /\ fx.pc = "L179"
    /\ fx.branch <= Len(Branches)
    /\ \E outcome \in DownloadOutcomes :
         LET d == _download_and_extract_zip(fx.fs, fx.archive, outcome)
             tried == Append(fx.attempts,
                             [branch |-> Branches[fx.branch], outcome |-> outcome])
         IN  IF d.raised = None
             THEN fx' = [fx EXCEPT !.pc = "returned", !.fs = d.fs, !.attempts = tried]
             ELSE IF d.raised = "HTTPError 404"
             THEN fx' = [fx EXCEPT !.branch = @ + 1, !.fs = d.fs, !.attempts = tried]
             ELSE fx' = [fx EXCEPT !.pc = "raised", !.fs = d.fs, !.attempts = tried,
                                   !.error = d.raised]
    /\ UNCHANGED <<jobVars, rd, st, engVars, tf, cm>>

\* line 189: every branch answered 404
FallbackExhausted ==
    /\ fx.pc = "L179"
    /\ fx.branch > Len(Branches)
    /\ Raise("Could not download repo ZIP from GitHub (main/master)")
    /\ UNCHANGED <<jobVars, rd, st, engVars, tf, cm>>

\* no provisioner, rewriter or fetch under observation
NoTools ==
    /\ tf = IdleProvisioner
    /\ cm = IdleRewriter
    /\ fx = IdleFetch

\* ------------------------------------------------------------------------
\* Specifications
\* ------------------------------------------------------------------------

Sources == {"zip", "url", "none"}

\* no DecisionEngine under observation
NoEngine ==
    /\ eng_tree = [entries |-> {}, req_files |-> <<>>, pkg_files |-> <<>>]
    /\ eng_nlp = [preference |-> None]
    /\ eng_facts = analyze(eng_tree, None)
    /\ eng_notes = <<>>
    /\ eng_plans = <<>>
    /\ eng_first = <<>>

\* the job table with its workers and status requests
Init ==
    /\ InitJobs
    /\ rd = IdleReader
    /\ st = IdleStream
    /\ NoEngine
    /\ NoTools

Next ==
    \/ \E src \in Sources : Deploy(MaxJobs, src)
    \/ \E j \in 1..Len(jobs) : LogStart(j)
    \/ \E j \in 1..Len(jobs) : Extract(j)
    \/ \E j \in 1..Len(jobs) : Analyze(j)
    \/ \E j \in 1..Len(jobs) : Decide(j)
    \/ \E j \in 1..Len(jobs) : Provision(j)
    \/ \E j \in 1..Len(jobs) : Rewrite(j)
    \/ \E j \in 1..Len(jobs) : StoreResult(j)
    \/ \E j \in 1..Len(jobs) : SetDone(j)
    \/ \E j \in 1..Len(jobs) : LogCompleted(j)
    \/ \E j \in 1..Len(jobs) : ErrDone(j)
    \/ \E j \in 1..Len(jobs) : ErrResult(j)
    \/ \E j \in 1..MaxJobs : GetLogs(j)
    \/ ReadResult
    \/ Respond

Spec == Init /\ [][Next]_vars

\* the job table with its workers and one log stream
NextStream ==
    \/ \E src \in Sources : Deploy(MaxStreamJobs, src)
    \/ \E j \in 1..Len(jobs) : LogStart(j)
    \/ \E j \in 1..Len(jobs) : Extract(j)
    \/ \E j \in 1..Len(jobs) : Analyze(j)
    \/ \E j \in 1..Len(jobs) : Decide(j)
    \/ \E j \in 1..Len(jobs) : Provision(j)
    \/ \E j \in 1..Len(jobs) : Rewrite(j)
    \/ \E j \in 1..Len(jobs) : StoreResult(j)
    \/ \E j \in 1..Len(jobs) : SetDone(j)
    \/ \E j \in 1..Len(jobs) : LogCompleted(j)
    \/ \E j \in 1..Len(jobs) : ErrDone(j)
    \/ \E j \in 1..Len(jobs) : ErrResult(j)
    \/ \E j \in 1..(MaxStreamJobs + 1) : OpenStream(j)
    \/ Poll
    \/ SetCursor
    \/ YieldLines

SpecStream == Init /\ [][NextStream]_vars

\* One step of the worker that deploy scheduled for job j (line 53): the
\* background task runs in the server's thread pool until run_pipeline returns
WorkerStep(j) ==
    /\ j \in 1..Len(jobs)
    /\ \/ LogStart(j)
       \/ Extract(j)
       \/ Analyze(j)
       \/ Decide(j)
       \/ Provision(j)
       \/ Rewrite(j)
       \/ StoreResult(j)
       \/ SetDone(j)
       \/ LogCompleted(j)
       \/ ErrDone(j)
       \/ ErrResult(j)

\* One step of the stream's generator, which the event loop resumes after
\* each sleep and each yield
StreamStep == Poll \/ SetCursor \/ YieldLines

\* The same system with its scheduling: a scheduled worker and an open stream
\* keep running (each external call returns); requests arrive or not
SpecStreamFair ==
    /\ Init
    /\ [][NextStream]_vars
    /\ \A j \in 1..MaxStreamJobs : WF_vars(WorkerStep(j))
    /\ WF_vars(StreamStep)

\* an engine built as run_pipeline builds it (lines 79-84) from any intent and tree
InitEngine ==
    /\ InitJobs
    /\ rd = IdleReader
    /\ st = IdleStream
    /\ eng_tree \in Trees
    /\ eng_nlp \in NlpInfos
    /\ eng_facts = analyze(eng_tree, DictGet(eng_nlp, "framework", None))
    /\ eng_notes = <<>>
    /\ eng_plans = <<>>
    /\ eng_first = <<>>
    /\ cm = IdleRewriter
    /\ fx = IdleFetch
    /\ tf = IdleProvisioner

NextEngine == MakePlanCall

SpecEngine == InitEngine /\ [][NextEngine]_vars

\* one TerraformProvisioner.apply() on any plan the engine can return
InitTerraform ==
    /\ InitJobs
    /\ rd = IdleReader
    /\ st = IdleStream
    /\ NoEngine
    /\ InitProvisioner
    /\ cm = IdleRewriter
    /\ fx = IdleFetch

NextTerraform ==
    \/ TfRender
    \/ TfInit
    \/ TfApply
    \/ TfOutput

SpecTerraform == InitTerraform /\ [][NextTerraform]_vars

\* one working tree, scanned and rewritten as run_pipeline does or rewritten by a
\* direct call of modify_code_for_deployment
InitRewrite ==
    /\ InitJobs
    /\ rd = IdleReader
    /\ st = IdleStream
    /\ NoEngine
    /\ tf = IdleProvisioner
    /\ InitRewriter
    /\ fx = IdleFetch

NextRewrite ==
    \/ PipelineCall
    \/ DirectCall
    \/ ModifyStep
    \/ ModifyReturn

SpecRewrite == InitRewrite /\ [][NextRewrite]_vars

\* one RepoAnalyzer._fetch() on any source
InitFetch ==
    /\ InitJobs
    /\ rd = IdleReader
    /\ st = IdleStream
    /\ NoEngine
    /\ tf = IdleProvisioner
    /\ cm = IdleRewriter
    /\ InitFetcher

NextFetch ==
    \/ FetchDispatch
    \/ ExtractLocal
    \/ DownloadRemote
    \/ Clone
    \/ FallbackHost
    \/ TryBranch
    \/ FallbackExhausted

SpecFetch == InitFetch /\ [][NextFetch]_vars

\* ------------------------------------------------------------------------
\* Properties of the job table (Spec) and of the log stream (SpecStream)
\* ------------------------------------------------------------------------

Last(q) == q[Len(q)]
JobIds == 1..Len(jobs)
Failed(j) == pc[j] \in {"L107", "L108", "err"}
Succeeded(j) == pc[j] \in {"L103", "L104", "ok"}

\* C1: a job starts its stages in the order intent, analyze, decide, provision,
\* rewrite, each only after the one before it returned; provisioning starts only
\* with a plan, and the rewriter touches the tree only with an endpoint map
TheoremC1 ==
    \A j \in JobIds :
        /\ IsPrefix(stages[j], StageOrder)
        /\ IsPrefix(returned[j], stages[j])
        /\ Len(stages[j]) <= Len(returned[j]) + 1
        /\ ("provision" \in Range(stages[j]) => plan[j] # NoneObj)
        /\ ("rewrite" \in Range(stages[j]) => outputs[j] # NoneObj)
        /\ (touched[j] => outputs[j] # NoneObj)

\* a job ran all five stages and the rewriter touched its tree
WitnessC1 ==
    \E j \in JobIds :
        /\ pc[j] = "ok"
        /\ stages[j] = StageOrder
        /\ returned[j] = StageOrder
        /\ touched[j]

StageErrors(stage) ==
    IF stage = "analyze" THEN FetchErrors ELSE TerraformErrors \cup {UnsupportedStrategy}

\* C2: when fetching or provisioning fails, the failed stage is the last one the
\* job starts, the failure message is the last entry of the log, and the job ends
\* terminal with no result
TheoremC2 ==
    \A j \in JobIds :
        (Failed(j) /\ Last(stages[j]) \in {"analyze", "provision"}) =>
            /\ returned[j] = SubSeq(stages[j], 1, Len(stages[j]) - 1)
            /\ ~touched[j]
            /\ Len(jobs[j].logs) >= 1
            /\ Last(jobs[j].logs).text \in {ErrorText(e) : e \in StageErrors(Last(stages[j]))}
            /\ (pc[j] = "err" => jobs[j].done /\ jobs[j].result = NoneObj)

\* a job ended after terraform apply exited non-zero
WitnessC2 ==
    \E j \in JobIds :
        /\ pc[j] = "err"
        /\ Last(stages[j]) = "provision"
        /\ jobs[j].done
        /\ Last(jobs[j].logs).text = ErrorText("terraform apply returned non-zero exit status")

\* C3: once a job's terminal flag is true its record never changes again (no log
\* line is added, the result is not changed), on the success and the failure path
CounterC3 ==
    [][\A j \in JobIds : jobs[j].done => jobs'[j] = jobs[j]]_vars

\* C4: a job's log only grows at its end, every entry was written by the job's own
\* worker, a job's result is its own endpoint map, and the log a status request
\* returns is a prefix of the job's log from then on
TheoremC4 ==
    /\ [][/\ Len(jobs') >= Len(jobs)
          /\ \A j \in JobIds : IsPrefix(jobs[j].logs, jobs'[j].logs)]_vars
    /\ [](\A j \in JobIds :
            /\ \A i \in 1..Len(jobs[j].logs) : jobs[j].logs[i].by = j
            /\ jobs[j].result # NoneObj => jobs[j].result = TerraformOutputs(j, plan[j]))
    /\ [](rd.pc = "returned" => IsPrefix(rd.logs, jobs[rd.job].logs))

\* two jobs have written to their logs, and a status request returned a log that
\* has grown since
WitnessC4 ==
    /\ rd.pc = "returned"
    /\ Len(rd.logs) >= 1
    /\ Len(rd.logs) < Len(jobs[rd.job].logs)
    /\ \E j \in JobIds : j # rd.job /\ Len(jobs[j].logs) >= 2 /\ jobs[j].result # NoneObj

\* C5: the stream's cursor never decreases, the entries it yields are entries of
\* the job's log at strictly increasing positions (none twice, in log order)
TheoremC5 ==
    /\ [][st'.last_line >= st.last_line]_vars
    /\ [](\A a, b \in 1..Len(st.yielded) : a < b => st.yielded[a].idx < st.yielded[b].idx)
    /\ [](\A a \in 1..Len(st.yielded) :
            /\ st.yielded[a].idx \in 1..Len(jobs[st.job].logs)
            /\ st.yielded[a].entry = jobs[st.job].logs[st.yielded[a].idx])

\* the stream has yielded lines in two polls at least and the worker has appended
\* again behind the cursor
WitnessC5 ==
    /\ st.pc = "sleep"
    /\ Len(st.yielded) >= 3
    /\ Len(jobs[st.job].logs) > st.last_line

\* C6: a successful job is never terminal with an empty result, and a status
\* request that read terminal=true of a successful job reads its endpoint map
TheoremC6 ==
    /\ \A j \in JobIds :
          (jobs[j].done /\ Succeeded(j)) =>
              jobs[j].result # NoneObj /\ jobs[j].result = outputs[j]
    /\ (rd.pc = "returned" /\ rd.done /\ Succeeded(rd.job)) =>
              rd.result # NoneObj /\ rd.result = outputs[rd.job]

\* a status request read terminal=true and the endpoint map of a successful job
WitnessC6 ==
    /\ rd.pc = "returned"
    /\ rd.done
    /\ Succeeded(rd.job)
    /\ rd.result = outputs[rd.job]
    /\ "public_ip" \in DOMAIN rd.result

\* ------------------------------------------------------------------------
\* Properties of the decision engine (SpecEngine)
\* ------------------------------------------------------------------------

\* the user's preference names w (any letter case)
Prefers(w) ==
    /\ "preference" \in DOMAIN eng_nlp
    /\ eng_nlp.preference # None
    /\ Contains(w, Lower(eng_nlp.preference))

NeedsGpu == eng_facts.services_manifest.needs_gpu
Stateful == eng_facts.services_manifest.db # None \/ eng_facts.services_manifest.queue # None
StaticAssets ==
    \E e \in eng_tree.entries :
        \/ e.dir /\ Lower(e.name) \in {"static", "public", "frontend", "assets"}
        \/ ~e.dir /\ Lower(e.name) = "index.html"
HasDockerfile == \E e \in eng_tree.entries : e.name = "Dockerfile"
NoHeavyDep == HeavyDeps(eng_facts) = {}

\* the rule that decides: rule k decides when it matches and no rule before it does
RuleMatches ==
    << Prefers("kubernetes"), Prefers("serverless"), Prefers("container"), NeedsGpu,
       Stateful, StaticAssets, HasDockerfile, NoHeavyDep, TRUE >>
RuleOutcome ==
    << "EKS", "Lambda", "ECS", "EC2-GPU", "EC2", "EC2", "ECS", "Lambda", "EC2" >>
FirstMatch == CHOOSE k \in 1..9 : RuleMatches[k] /\ \A m \in 1..(k - 1) : ~RuleMatches[m]

TheoremC8 ==
    \A i \in 1..Len(eng_plans) :
        /\ eng_plans[i] # NoneObj
        /\ Len(eng_first[i].notes) >= 1

\* a plan was returned for an unknown provider and for a None provider
WitnessC8 ==
    /\ Len(eng_plans) >= 1
    /\ InitProvider(eng_nlp) \in {"Oracle", None}
    /\ eng_first[1].region = "us-east-1"
    /\ Len(eng_first[1].notes) = 1

\* C9: a second make_plan on the same engine returns a plan equal to the first one,
\* and no plan already returned is changed by a later call
CounterC9 ==
    \A i \in 1..Len(eng_plans) :
        /\ eng_first[i] = eng_first[1]
        /\ Deref(eng_plans[i]) = eng_first[i]

\* a generic kind counts as provider-qualified only where it is itself the
\* provider's product name (SQS on AWS)
Qualified(provider, kind, name) ==
    name # None /\ (name # kind \/ (provider = "AWS" /\ name = "SQS"))

\* C10: for every provider, each inferred database, cache or queue need appears in
\* the plan as a provider-qualified product name, and a need that was not inferred
\* appears as None
CounterC10 ==
    \A i \in 1..Len(eng_first) :
        eng_first[i] # NoneObj =>
            \A svc \in {"db", "cache", "queue"} :
                LET kind == eng_facts.services_manifest[svc]
                    name == eng_first[i][svc]
                IN  IF kind = None THEN name = None
                    ELSE Qualified(eng_first[i].provider, kind, name)

\* ------------------------------------------------------------------------
\* Properties of the provisioner (SpecTerraform)
\* ------------------------------------------------------------------------

TfOrder == <<"init", "apply", "output">>
RenderRaised == tf.pc = "raised" /\ tf.calls = <<>>

\* C11: terraform is invoked in the order init, apply, output, each at most once and
\* each only after the one before it exited with zero; a non-zero exit raises, ends
\* the sequence and returns no endpoint map
TheoremC11 ==
    /\ Len(tf.calls) <= Len(TfOrder)
    /\ \A i \in 1..Len(tf.calls) : tf.calls[i].cmd = TfOrder[i]
    /\ \A i \in 1..(Len(tf.calls) - 1) : tf.calls[i].exit = 0
    /\ (tf.calls # <<>> /\ Last(tf.calls).exit # 0) => (tf.pc = "raised" /\ tf.result = NoneObj)
    /\ tf.pc = "raised" => tf.result = NoneObj
    /\ tf.pc = "returned" =>
          /\ Len(tf.calls) = Len(TfOrder)
          /\ \A i \in 1..Len(tf.calls) : tf.calls[i].exit = 0
          /\ tf.result # NoneObj

\* terraform apply exited non-zero after a successful init
WitnessC11 ==
    /\ tf.pc = "raised"
    /\ tf.calls = << [cmd |-> "init", exit |-> 0], [cmd |-> "apply", exit |-> 1] >>

\* the compute resource each strategy with a template is rendered to
ComputeDescriptor ==
    [s \in {"EC2", "EC2-GPU", "Lambda", "ECS"} |->
        IF s = "Lambda" THEN "aws_lambda_function"
        ELSE IF s = "ECS" THEN "aws_ecs_cluster"
        ELSE "aws_instance"]

\* C12: once rendering is over, a plan with strategy EC2, EC2-GPU, Lambda or ECS has
\* its one compute descriptor (virtual machine, function, cluster) in main.tf; for
\* any other strategy rendering raised, there is no compute descriptor and terraform
\* was never invoked
TheoremC12 ==
    tf.pc \notin {"idle", "L43"} =>
        IF tf.plan.strategy \in DOMAIN ComputeDescriptor
        THEN /\ ~RenderRaised
             /\ "main.tf" \in DOMAIN tf.files
             /\ tf.files["main.tf"].declares = ComputeDescriptor[tf.plan.strategy]
        ELSE /\ RenderRaised
             /\ "main.tf" \notin DOMAIN tf.files
             /\ tf.result = NoneObj

\* rendering raised for the EKS strategy after the provider file was written
WitnessC12 ==
    /\ tf.plan # NoneObj
    /\ tf.plan.strategy = "EKS"
    /\ RenderRaised
    /\ "provider.tf" \in DOMAIN tf.files

\* ------------------------------------------------------------------------
\* Properties of the rewriter (SpecRewrite)
\* cm.hist[k] records iteration k of the loop: the candidate, the outcome, the line
\* before and after the substitution, and the tree before and after the iteration
\* ------------------------------------------------------------------------

LinesOf(fs, f) == splitlines(fs[f].text)

\* the candidate's file is not in the tree, or its line number is outside
\* 1..(line count of the file)
Unusable(h) ==
    \/ h.mod.file \notin DOMAIN h.before
    \/ h.mod.line \notin 1..Len(LinesOf(h.before, h.mod.file))

\* C13: a candidate whose file is missing or whose line number is out of range is
\* skipped: the iteration raises nothing, changes no file, and the loop goes on
\* with the next candidate
CounterC13 ==
    \A k \in 1..Len(cm.hist) :
        Unusable(cm.hist[k]) =>
            /\ cm.hist[k].outcome \in {"missing", "invalid"}
            /\ cm.hist[k].after = cm.hist[k].before

\* C14: when the substitution leaves the line's text unchanged, the file is the
\* same after the iteration as before it, terminators and trailing newline included
CounterC14 ==
    \A k \in 1..Len(cm.hist) :
        cm.hist[k].outcome = "no change" => cm.hist[k].after = cm.hist[k].before

\* C15: after scan + rewrite has run again over a tree it already rewrote, every
\* line the first run substituted still has the text the first run gave it
CounterC15 ==
    (cm.mode = "pipeline" /\ cm.pc = "returned" /\ cm.run = MaxRuns) =>
        \A k \in 1..Len(cm.hist) :
            (cm.hist[k].run = 1 /\ cm.hist[k].outcome = "modified") =>
                LinesOf(cm.fs, cm.hist[k].mod.file)[cm.hist[k].mod.line]
                    = cm.hist[k].new_line

SampleLine == "app.run(host=\"127.0.0.1\", port=5000)"

\* C16: after scan + rewrite over a .py file, the line
\* app.run(host="127.0.0.1", port=5000) holds an environment lookup with the
\* literal 127.0.0.1 as fallback and ${PORT} in place of 5000, and every line
\* without loopback or port content has the text it had
CounterC16 ==
    (cm.mode = "pipeline" /\ cm.pc = "returned" /\ cm.run = 1) =>
        \A f \in DOMAIN cm.fs0 :
            suffix(f) = ".py" =>
                \A n \in 1..Len(LinesOf(cm.fs0, f)) :
                    LET was == LinesOf(cm.fs0, f)[n]
                        now == LinesOf(cm.fs, f)[n]
                    IN  /\ was = SampleLine =>
                              /\ Contains("os.environ.get('", now)
                              /\ Contains("', '127.0.0.1')", now)
                              /\ Contains("${PORT}", now)
                              /\ ~Contains("5000", now)
                        /\ (~LOCAL_PAT(was) /\ ~PORT_PAT(was)) => now = was

\* the logical endpoint name for a line, by the role the line mentions
LogicalName(line) ==
    IF \E w \in {"database", "db_", "postgres"} : Contains(w, Lower(line)) THEN "DB_HOST"
    ELSE IF Contains("redis", Lower(line)) THEN "REDIS_HOST"
    ELSE "APP_HOST"

\* C17: in a pipeline run, a loopback candidate in a script file gets an environment
\* lookup whose variable is the logical name of the line's role (DB_HOST,
\* REDIS_HOST, APP_HOST), whatever the endpoint values are, with the loopback
\* literal as the default
CounterC17 ==
    \A k \in 1..Len(cm.hist) :
        LET h == cm.hist[k]
        IN  (/\ cm.mode = "pipeline"
             /\ h.run = 1
             /\ h.mod.kind = "localhost_ref"
             /\ h.outcome = "modified"
             /\ suffix(h.mod.file) \in {".py", ".js"}) =>
                IF suffix(h.mod.file) = ".py"
                THEN \E lit \in {"localhost", "127.0.0.1"} :
                        Contains("os.environ.get('" \o LogicalName(h.original_line)
                                     \o "', '" \o lit \o "')", h.new_line)
                ELSE \E lit \in {"localhost", "127.0.0.1"} :
                        Contains("process.env." \o LogicalName(h.original_line)
                                     \o " || '" \o lit \o "'", h.new_line)

\* C18: modify_code_for_deployment returns the number of candidate lines whose
\* text it changed, 0 when it changed none
CounterC18 ==
    cm.pc = "returned" =>
        /\ cm.ret # NoneObj
        /\ cm.ret = Cardinality({k \in 1..Len(cm.hist) :
                                    /\ cm.hist[k].run = cm.run
                                    /\ cm.hist[k].outcome = "modified"})

\* ------------------------------------------------------------------------
\* Properties of the fetch (SpecFetch)
\* ------------------------------------------------------------------------

\* the content of the work directory, paths relative to it
TreeRoot ==
    {[path |-> SubSeq(e.path, Len(workdir) + 1, Len(e.path)), dir |-> e.dir] :
        e \in {x \in fx.fs : IsPrefix(workdir, x.path) /\ Len(x.path) > Len(workdir)}}

\* the project an archive holds: what is inside its single top-level folder when
\* it has one, the archive's entries as they are otherwise
ProjectOf(archive) ==
    LET top == {e \in archive : Len(e.path) = 1}
    IN  IF Cardinality(top) = 1 /\ \A e \in top : e.dir
        THEN {[path |-> Tail(e.path), dir |-> e.dir] : e \in archive \ top}
        ELSE archive

\* C19: after a successful fetch from an archive the work directory holds the
\* project itself, its top-level files directly under the root, whether or not the
\* archive wraps the project in one top-level folder
CounterC19 ==
    (fx.pc = "returned" /\ fx.cloned # "ok") =>
        /\ TreeRoot = ProjectOf(fx.archive)
        /\ \A f \in ProjectFiles :
              [path |-> <<f>>, dir |-> FALSE] \in ProjectOf(fx.archive)
                  => [path |-> Append(workdir, f), dir |-> FALSE] \in fx.fs

FetchFinished == fx.pc \in {"raised", "returned"}
\* the host part of the source URL names github.com
HostIsGitHub == Contains("github.com", netloc(fx.source.text))

\* C20: once the clone failed or was impossible, a GitHub source has its branch
\* archives tried in the order main, master, the next branch after any failure of
\* the one before, ending at the first success and failing only when every branch
\* was tried; for another host nothing is downloaded and the fetch fails
CounterC20 ==
    /\ \A i \in 1..Len(fx.attempts) :
          /\ fx.attempts[i].branch = Branches[i]
          /\ i < Len(fx.attempts) => fx.attempts[i].outcome # "ok"
    /\ (fx.fallback /\ FetchFinished /\ HostIsGitHub) =>
          /\ fx.attempts # <<>>
          /\ \/ fx.pc = "returned" /\ Last(fx.attempts).outcome = "ok"
             \/ fx.pc = "raised" /\ Len(fx.attempts) = Len(Branches)
                                 /\ Last(fx.attempts).outcome # "ok"
    /\ (fx.fallback /\ FetchFinished /\ ~HostIsGitHub) =>
          fx.attempts = <<>> /\ fx.pc = "raised"

\* ------------------------------------------------------------------------
\* Further properties of the fact record and the engine (SpecEngine)
\* ------------------------------------------------------------------------

FrameworkEnum == {"Flask", "Django", "FastAPI", "Express", "Node.js"}
ExpectedRuntime ==
    [m \in FrameworkEnum |-> IF m \in {"Express", "Node.js"} THEN "nodejs18.x" ELSE "python3.11"]

\* C21: a framework forced to a member of the enumeration, in any letter case, is
\* the fact record's framework exactly as the enumeration spells it, whatever the
\* tree holds, and the runtime of the plan is that framework's runtime
CounterC21 ==
    ("framework" \in DOMAIN eng_nlp /\ eng_nlp.framework # None) =>
        \A m \in FrameworkEnum :
            Lower(m) = Lower(eng_nlp.framework) =>
                /\ eng_facts.framework = m
                /\ \A i \in 1..Len(eng_first) : eng_first[i].runtime = ExpectedRuntime[m]

\* C22: the Python dependency list of the fact record holds each package name once
\* at most, however often the manifests declare it, and no comment line
CounterC22 ==
    "python" \in DOMAIN eng_facts.dependencies =>
        LET py == eng_facts.dependencies.python
        IN  /\ \A a, b \in 1..Len(py) : py[a] = py[b] => a = b
            /\ \A a \in 1..Len(py) : ~IsPrefix("#", LStrip(py[a]))

\* ------------------------------------------------------------------------
\* Further properties of the job table and the log stream
\* ------------------------------------------------------------------------

WorkerEnded(j) == pc[j] \in {"ok", "err"}

\* C23: a closed stream has yielded every entry of the job's final log, each once
\* and in order, however its polls interleave with the worker's appends and the
\* setting of the terminal flag
CounterC23 ==
    (st.pc = "closed" /\ st.job \in JobIds /\ WorkerEnded(st.job)) =>
        /\ Len(st.yielded) = Len(jobs[st.job].logs)
        /\ \A a \in 1..Len(st.yielded) :
              st.yielded[a] = [idx |-> a, entry |-> jobs[st.job].logs[a]]

\* C24: every job record a submission created eventually has done = TRUE, and
\* a log stream opened on a known job eventually closes
CounterC24 ==
    /\ \A j \in 1..MaxStreamJobs :
           [](Len(jobs) >= j => <>(Len(jobs) >= j /\ jobs[j].done))
    /\ [](st.pc \in {"sleep", "L28", "L29"} => <>(st.pc = "closed"))

\* C25: _render accepts the strategy of every plan make_plan returns, so
\* provisioning such a plan never raises the unsupported-strategy error
CounterC25 ==
    (tf.pc = "raised" /\ tf.plan \in ProvisionerPlans) =>
        (tf.calls # <<>> /\ ~_render(tf.plan).raised)

\* C26: a job whose provisioning stage returned an endpoint map ends with
\* that map as its result, whatever the rewriting stage does afterwards
CounterC26 ==
    \A j \in JobIds :
        (WorkerEnded(j) /\ outputs[j] # NoneObj) => jobs[j].result = outputs[j]

\* the tree the extractor scanned for the pass that entry k of the history
\* belongs to: the tree before the first candidate of that pass
SeenBy(k) == cm.hist[k - cm.hist[k].at + 1].before

\* C27: in a pass over the candidates the extractor produced, each candidate's
\* file is there when the rewriter reaches it, the candidate's line number is
\* in range, and that line is the line the extractor saw (its stripped text is
\* the recorded snippet); when the rewriter reads the file, the line it takes
\* is that line
TheoremC27 ==
    cm.mode = "pipeline" =>
        \A k \in 1..Len(cm.hist) :
            LET h == cm.hist[k]
                f == h.mod.file
            IN  /\ h.outcome \in {"modified", "no change", "raised"}
                /\ f \in DOMAIN h.before
                /\ f \in DOMAIN SeenBy(k)
                /\ LET now  == splitlines(h.before[f].text)
                       seen == splitlines(SeenBy(k)[f].text)
                   IN  /\ h.mod.line \in 1..Len(now)
                       /\ Len(now) = Len(seen)
                       /\ now[h.mod.line] = seen[h.mod.line]
                       /\ Strip(now[h.mod.line]) = h.mod.snippet
                       /\ h.outcome # "raised" => h.original_line = now[h.mod.line]

\* a pass rewrote a line of a file and then reached a later candidate of the
\* same file and rewrote that line too
WitnessC27 ==
    /\ cm.mode = "pipeline"
    /\ \E k \in 2..Len(cm.hist) :
          /\ cm.hist[k].run = cm.hist[k - 1].run
          /\ cm.hist[k].mod.file = cm.hist[k - 1].mod.file
          /\ cm.hist[k].mod.line > cm.hist[k - 1].mod.line
          /\ cm.hist[k - 1].outcome = "modified"
          /\ cm.hist[k].outcome = "modified"

====
